---------------------------- MODULE Spec2Model ----------------------------
(***************************************************************************)
(* A model of the cof dice crate: the dice domain (dice_type.rs,           *)
(* dice_set.rs), the roll-and-retrieve service (service.rs, mod.rs) and    *)
(* its history adapters (in_memory.rs, postgres/mod.rs).                   *)
(*                                                                         *)
(* Representation choices                                                  *)
(*  - A text (&str / String) is a sequence of one-character strings.       *)
(*  - A Dice is its discriminant (3, 4, 6, 8, 10, 12, 20, 100).            *)
(*  - A u32 / usize / i64 quantity that can come near 2^32 is a "wide"     *)
(*    number [hi, lo] with value hi * 2^16 + lo: the model checker's own   *)
(*    integers are narrower than the program's.                            *)
(*  - A Vec<Dice> is kept run-length encoded: a sequence of runs           *)
(*    [dice, n] (n a wide number, n > 0, neighbouring runs of different    *)
(*    dice), which stands for n copies of dice after one another.  Two     *)
(*    Vec<Dice> are equal exactly when their encodings are.  This is what  *)
(*    lets a DiceSet of more than 2^32 / 100 dice be an input.             *)
(*  - A Vec<RolledDice> is a plain sequence of records [dice, result].     *)
(*  - A Result is [ok |-> TRUE, val |-> v] or [ok |-> FALSE, err |-> e,    *)
(*    arg |-> a] (arg: the String an error variant carries, else << >>).   *)
(***************************************************************************)
EXTENDS Integers, Sequences, FiniteSets, TLC

VARIABLES
    \* -- the notation / rolling harness (a caller of the model::dice API)
    text,        \* the text last given to or produced by the API, or NoText
    textFrom,    \* the DiceSet whose Display produced text, or NoSet
    set,         \* the Result of the last from_str, Ok(an input DiceSet), or NoResult
    setFrom,     \* the text whose parse produced set, or NoText
    rolledOut,   \* the Result of the last DiceSet::roll, or NoResult
    token,       \* the text last given to or produced by the Dice API, or NoText
    tokenFrom,   \* Ok(the Dice whose formatting produced token), or NoResult
    die,         \* the Result of the last Dice::try_from, Ok(an input Dice), or NoResult
    dieFrom,     \* the text whose parse produced die, or NoText
    lower,       \* the Result of the last lower_bound of set, or NoResult
    upper,       \* the Result of the last upper_bound of set, or NoResult
    \* -- the dice service and its adapters
    task,        \* per caller: the call in flight and its position
    repo,        \* InMemoryDiceHistorySaver.repo : HashMap<Uuid, RolledDiceSet>
    rwWriter,    \* the tasks holding the RwLock's write guard (at most one)
    rwReaders,   \* the tasks holding a read guard
    table,       \* the rows of the Postgres table dice_rolls
    minted,      \* per Uuid, how many times Uuid::now_v7 has returned it
    returned,    \* history: the responses roll_dices has returned
    lastSaved,   \* history: per id, the set of the last save_roll that returned Ok
    lost,        \* history: the rolls whose save_roll returned an error
    calls        \* the number of calls the callers have made

vars == <<text, textFrom, set, setFrom, rolledOut, token, tokenFrom, die, dieFrom,
          lower, upper,
          task, repo, rwWriter, rwReaders, table, minted, returned, lastSaved,
          lost, calls>>

tokVars  == <<token, tokenFrom, die, dieFrom>>
bndVars  == <<lower, upper>>
diceVars == <<text, textFrom, set, setFrom, rolledOut, tokVars, bndVars>>
svcVars  == <<task, repo, rwWriter, rwReaders, table, minted, returned, lastSaved,
             lost, calls>>

-----------------------------------------------------------------------------
(* Results *)

Ok(v) == [ok |-> TRUE, val |-> v]
Err(e) == [ok |-> FALSE, err |-> e, arg |-> << >>]
ErrWith(e, a) == [ok |-> FALSE, err |-> e, arg |-> a]

\* "nothing yet", for a variable that holds a text (a real text has
\* one-character elements), a DiceSet (a real run has n > 0) or a Result
NoText == <<"none">>
NoSet == <<[dice |-> 0, n |-> [hi |-> 0, lo |-> 0]]>>
NoResult == Err("none")
NoId == 0

-----------------------------------------------------------------------------
(* Wide numbers: hi * 2^16 + lo with 0 <= lo < 2^16 *)

Base == 2^16

WNorm(hi, lo) == [hi |-> hi + (lo \div Base), lo |-> lo % Base]
W(n) == WNorm(0, n)
WAdd(a, b) == WNorm(a.hi + b.hi, a.lo + b.lo)
WMul(a, k) == WNorm(a.hi * k, a.lo * k)
WLe(a, b) == a.hi < b.hi \/ (a.hi = b.hi /\ a.lo <= b.lo)
WLt(a, b) == WLe(a, b) /\ a # b
WDiv10(a) == [hi |-> a.hi \div 10, lo |-> ((a.hi % 10) * Base + a.lo) \div 10]
WMod10(a) == ((a.hi % 10) * Base + a.lo) % 10
WInt(a) == a.hi * Base + a.lo
WZero == W(0)
WOne == W(1)

\* u32::MAX
U32Max == [hi |-> Base - 1, lo |-> Base - 1]
\* a u32 after a wrapping operation
Wrap32(a) == [hi |-> a.hi % Base, lo |-> a.lo]

\* u32::checked_add
CheckedAdd(a, b) ==
    LET s == WAdd(a, b) IN IF WLe(s, U32Max) THEN Ok(s) ELSE Err("overflow")

-----------------------------------------------------------------------------
(* Characters *)

DigitChars == <<"0", "1", "2", "3", "4", "5", "6", "7", "8", "9">>
IsDigit(c) == \E i \in 1..10 : DigitChars[i] = c
DigitVal(c) == (CHOOSE i \in 1..10 : DigitChars[i] = c) - 1

\* format!("{n}") of an unsigned integer
RECURSIVE ToDigits(_)
ToDigits(a) ==
    IF WLt(a, W(10)) THEN <<DigitChars[WInt(a) + 1]>>
    ELSE Append(ToDigits(WDiv10(a)), DigitChars[WMod10(a) + 1])

\* str::parse::<u32> of a non-empty run of ASCII digits: each step multiplies
\* by ten and adds the digit, both checked
RECURSIVE ParseU32From(_, _, _)
ParseU32From(s, i, acc) ==
    IF i > Len(s) THEN Ok(acc)
    ELSE LET next == WAdd(WMul(acc, 10), W(DigitVal(s[i])))
         IN IF WLe(next, U32Max) THEN ParseU32From(s, i + 1, next)
            ELSE Err("PosOverflow")

ParseU32(s) ==
    IF s = << >> THEN Err("Empty")
    ELSE IF \E i \in 1..Len(s) : ~IsDigit(s[i]) THEN Err("InvalidDigit")
    ELSE ParseU32From(s, 1, WZero)

-----------------------------------------------------------------------------
(* dice_type.rs *)

D3 == 3
D4 == 4
D6 == 6
D8 == 8
D10 == 10
D12 == 12
D20 == 20
D100 == 100

\* enum Dice; the derived Ord is the order of the discriminants
Dice == {D3, D4, D6, D8, D10, D12, D20, D100}

\* Dice::side_count
side_count(d) == d

\* RolledDice::new
RolledDice(d, r) == [dice |-> d, result |-> r]

\* a roll drawn from 1..=2 * side_count
RollRangeTwice(d) == 1..(2 * side_count(d))

\* a roll drawn from 0..side_count - 1 instead of 1..=side_count
RollRangeFromZero(d) == 0..(side_count(d) - 1)

\* rand's random_range(1..=side_count): every value of the range can be drawn
RollRange(d) == 1..side_count(d)

\* Dice::roll: the set of its possible outcomes
DiceRoll(d) == {RolledDice(d, r) : r \in RollRange(d)}

\* impl TryFrom<&str> for Dice
DiceTryFrom(value) ==
    CASE value = <<"d", "3">> -> Ok(D3)
      [] value = <<"d", "4">> -> Ok(D4)
      [] value = <<"d", "6">> -> Ok(D6)
      [] value = <<"d", "8">> -> Ok(D8)
      [] value = <<"d", "1", "0">> -> Ok(D10)
      [] value = <<"d", "1", "2">> -> Ok(D12)
      [] value = <<"d", "2", "0">> -> Ok(D20)
      [] value = <<"d", "1", "0", "0">> -> Ok(D100)
      [] OTHER -> ErrWith("DiceUnknown", value)

\* impl From<Dice> for &str
DiceInto(d) ==
    CASE d = D3 -> <<"d", "3">>
      [] d = D4 -> <<"d", "4">>
      [] d = D6 -> <<"d", "6">>
      [] d = D8 -> <<"d", "8">>
      [] d = D10 -> <<"d", "1", "0">>
      [] d = D12 -> <<"d", "1", "2">>
      [] d = D20 -> <<"d", "2", "0">>
      [] d = D100 -> <<"d", "1", "0", "0">>

\* a Display that writes the token with a capital letter
DiceDisplayUpper(d) == <<"D">> \o Tail(DiceInto(d))

\* impl Display for Dice
DiceDisplay(d) ==
    CASE d = D3 -> <<"d", "3">>
      [] d = D4 -> <<"d", "4">>
      [] d = D6 -> <<"d", "6">>
      [] d = D8 -> <<"d", "8">>
      [] d = D10 -> <<"d", "1", "0">>
      [] d = D12 -> <<"d", "1", "2">>
      [] d = D20 -> <<"d", "2", "0">>
      [] d = D100 -> <<"d", "1", "0", "0">>

-----------------------------------------------------------------------------
(* dice_set.rs: DiceSet *)

\* Vec::push of n copies of d onto the encoded vector v
PushRun(v, d, n) ==
    IF n = WZero THEN v
    ELSE IF v # << >> /\ v[Len(v)].dice = d
         THEN [v EXCEPT ![Len(v)].n = WAdd(@, n)]
         ELSE Append(v, [dice |-> d, n |-> n])

\* Vec::len (a usize)
RECURSIVE VecLenFrom(_, _)
VecLenFrom(v, i) ==
    IF i > Len(v) THEN WZero ELSE WAdd(v[i].n, VecLenFrom(v, i + 1))
VecLen(v) == VecLenFrom(v, 1)

\* DiceSet::new over an iterator that yields, for each pair of `runs` in
\* turn, `number` copies of `dice`
RECURSIVE CollectFrom(_, _, _)
CollectFrom(runs, i, v) ==
    IF i > Len(runs) THEN v
    ELSE CollectFrom(runs, i + 1, PushRun(v, runs[i].dice, runs[i].number))
DiceSetNew(runs) == CollectFrom(runs, 1, << >>)

\* DiceSet::new over the dice of a plain sequence
DiceSetOf(flat) == DiceSetNew([i \in 1..Len(flat) |-> [number |-> WOne, dice |-> flat[i]]])

\* the dice of a DiceSet one by one (self.0.into_iter()); only for a
\* DiceSet short enough to be walked
RECURSIVE IterFrom(_, _)
IterFrom(ds, i) ==
    IF i > Len(ds) THEN << >>
    ELSE [k \in 1..WInt(ds[i].n) |-> ds[i].dice] \o IterFrom(ds, i + 1)
Iter(ds) == IterFrom(ds, 1)

\* a lower bound narrowed to 16 bits: u16::try_from(len)
LowerBoundU16(ds) ==
    LET len == VecLen(ds)
    IN IF WLe(len, W(2^16 - 1)) THEN Ok(len) ELSE Err("WayTooManyDices")

\* DiceSet::lower_bound: u32::try_from(len)
lower_bound(ds) ==
    LET len == VecLen(ds)
    IN IF WLe(len, U32Max) THEN Ok(len) ELSE Err("WayTooManyDices")

\* a fold with wrapping_add in place of checked_add
RECURSIVE UpperFoldWrapping(_, _, _)
UpperFoldWrapping(ds, i, acc) ==
    IF i > Len(ds) THEN Ok(acc)
    ELSE UpperFoldWrapping(ds, i + 1,
             Wrap32(WAdd(acc, WMul(ds[i].n, side_count(ds[i].dice)))))

\* DiceSet::upper_bound: try_fold with checked_add, die by die.  The
\* accumulator only grows, so the fold over a run of n equal dice fails
\* exactly when acc + n * sides exceeds u32::MAX.
RECURSIVE UpperFold(_, _, _)
UpperFold(ds, i, acc) ==
    IF i > Len(ds) THEN Ok(acc)
    ELSE LET s == WAdd(acc, WMul(ds[i].n, side_count(ds[i].dice)))
         IN IF WLe(s, U32Max) THEN UpperFold(ds, i + 1, s)
            ELSE Err("WayTooManyDices")
upper_bound(ds) == UpperFold(ds, 1, WZero)

\* a collect that stores the outcomes last die first
RECURSIVE RollEachReversed(_)
RollEachReversed(flat) ==
    IF flat = << >> THEN {<< >>}
    ELSE {rest \o <<rd>> : rd \in DiceRoll(Head(flat)), rest \in RollEachReversed(Tail(flat))}

\* map(Dice::roll).collect(): every sequence of outcomes, die by die
RECURSIVE RollEach(_)
RollEach(flat) ==
    IF flat = << >> THEN {<< >>}
    ELSE {<<rd>> \o rest : rd \in DiceRoll(Head(flat)), rest \in RollEach(Tail(flat))}

\* DiceSet::roll: the set of its possible results
roll(ds) ==
    IF ~upper_bound(ds).ok THEN {Err("WayTooManyDices")}
    ELSE {Ok(r) : r \in RollEach(Iter(ds))}

\* RolledDiceSet::total: fold(0u32, |acc, e| acc + e.result), an unchecked
\* u32 addition (wrapping in a release build)
RECURSIVE TotalFold(_, _, _)
TotalFold(rs, i, acc) ==
    IF i > Len(rs) THEN acc
    ELSE TotalFold(rs, i + 1, Wrap32(WAdd(acc, W(rs[i].result))))
total(rs) == TotalFold(rs, 1, WZero)

-----------------------------------------------------------------------------
(* dice_set.rs: impl FromStr for DiceSet *)

\* the end (exclusive) of the longest run of [0-9] that starts at i
RECURSIVE DigitsEnd(_, _)
DigitsEnd(s, i) ==
    IF i <= Len(s) /\ IsDigit(s[i]) THEN DigitsEnd(s, i + 1) ELSE i

\* the regex matched without regard to case: "D" also starts a dice token
MatchAtAnyCase(s, i) ==
    LET j == DigitsEnd(s, i)
        k == DigitsEnd(s, j + 1)
    IN IF j <= Len(s) /\ s[j] \in {"d", "D"} /\ k > j + 1
       THEN [found |-> TRUE, hasNumber |-> j > i, number |-> SubSeq(s, i, j - 1),
             dice |-> SubSeq(s, j, k - 1), end |-> k]
       ELSE [found |-> FALSE, hasNumber |-> FALSE, number |-> << >>,
             dice |-> << >>, end |-> i]

\* the regex (?<number>[0-9]+)?(?<dice>d[0-9]+) tried at position i.  Both
\* repetitions are greedy; giving digits back never helps (the character
\* after a shorter number is a digit, not "d"), so a match at i is the
\* longest run of digits, "d", and the longest non-empty run of digits.
MatchAt(s, i) ==
    LET j == DigitsEnd(s, i)
        k == DigitsEnd(s, j + 1)
    IN IF j <= Len(s) /\ s[j] = "d" /\ k > j + 1
       THEN [found |-> TRUE, hasNumber |-> j > i, number |-> SubSeq(s, i, j - 1),
             dice |-> SubSeq(s, j, k - 1), end |-> k]
       ELSE [found |-> FALSE, hasNumber |-> FALSE, number |-> << >>,
             dice |-> << >>, end |-> i]

\* a captures_iter that looks for the next match one character after the
\* start of the last one, so that matches overlap
RECURSIVE CapturesOverlapping(_, _)
CapturesOverlapping(s, pos) ==
    IF pos > Len(s) THEN << >>
    ELSE LET m == MatchAt(s, pos)
         IN IF m.found THEN <<m>> \o CapturesOverlapping(s, pos + 1)
            ELSE CapturesOverlapping(s, pos + 1)

\* Regex::captures_iter: the leftmost match at or after pos, then the
\* matches after its end
RECURSIVE CapturesFrom(_, _)
CapturesFrom(s, pos) ==
    IF pos > Len(s) THEN << >>
    ELSE LET m == MatchAt(s, pos)
         IN IF m.found THEN <<m>> \o CapturesFrom(s, m.end)
            ELSE CapturesFrom(s, pos + 1)
captures_iter(s) == CapturesFrom(s, 1)

\* a closure that takes every term once, whatever its count
TermOfCountOne(caps) ==
    LET dice == DiceTryFrom(caps.dice)
    IN IF ~dice.ok THEN dice ELSE Ok([number |-> WOne, dice |-> dice.val])

\* the closure of from_str: one match to (number, dice)
TermOf(caps) ==
    LET number == IF caps.hasNumber THEN ParseU32(caps.number) ELSE Ok(WOne)
    IN IF ~number.ok THEN Err("DiceSetParseError")
       ELSE LET dice == DiceTryFrom(caps.dice)
            IN IF ~dice.ok THEN dice
               ELSE Ok([number |-> number.val, dice |-> dice.val])

\* collect::<Result<Vec<_>, _>>(): the terms, or the first error
RECURSIVE CollectTerms(_, _, _)
CollectTerms(caps, i, acc) ==
    IF i > Len(caps) THEN Ok(acc)
    ELSE LET t == TermOf(caps[i])
         IN IF t.ok THEN CollectTerms(caps, i + 1, Append(acc, t.val)) ELSE t

\* a from_str without the check for an empty list of terms
FromStrNoEmptyCheck(s) ==
    LET dices == CollectTerms(captures_iter(s), 1, << >>)
    IN IF ~dices.ok THEN dices ELSE Ok(DiceSetNew(dices.val))

\* a from_str that looks for dice, not for terms, before it succeeds
FromStrNoDiceCheck(s) ==
    LET dices == CollectTerms(captures_iter(s), 1, << >>)
    IN IF ~dices.ok THEN dices
       ELSE IF DiceSetNew(dices.val) = << >> THEN Err("DiceSetParseError")
       ELSE Ok(DiceSetNew(dices.val))

\* DiceSet::from_str
from_str(s) ==
    LET dices == CollectTerms(captures_iter(s), 1, << >>)
    IN IF ~dices.ok THEN dices
       ELSE IF dices.val = << >> THEN Err("DiceSetParseError")
       ELSE Ok(DiceSetNew(dices.val))

-----------------------------------------------------------------------------
(* dice_set.rs: impl Display for DiceSet *)

\* the loop over self.0: entry(d).and_modify(|e| *e += 1).or_insert(1u32),
\* n times for a run of n; the counter is a u32
RECURSIVE CountFrom(_, _, _)
CountFrom(ds, i, m) ==
    IF i > Len(ds) THEN m
    ELSE LET d == ds[i].dice
             n == ds[i].n
         IN CountFrom(ds, i + 1,
                IF d \in DOMAIN m THEN [m EXCEPT ![d] = Wrap32(WAdd(@, n))]
                ELSE m @@ (d :> Wrap32(n)))
dice_counts(ds) == CountFrom(ds, 1, << >>)

\* the keys without the .rev(): from the least up
RECURSIVE KeysAscending(_)
KeysAscending(S) ==
    IF S = {} THEN << >>
    ELSE LET mn == CHOOSE x \in S : \A y \in S : x <= y
         IN <<mn>> \o KeysAscending(S \ {mn})

\* BTreeMap::iter().rev(): the keys from the greatest down
RECURSIVE RevKeys(_)
RevKeys(S) ==
    IF S = {} THEN << >>
    ELSE LET mx == CHOOSE x \in S : \A y \in S : y <= x
         IN <<mx>> \o RevKeys(S \ {mx})

\* a group rendered without its count
GroupTextNoCount(dice, count) == DiceDisplay(dice)

\* the closure of fmt: one group to its text
GroupText(dice, count) ==
    IF count = WOne THEN DiceDisplay(dice)
    ELSE ToDigits(count) \o DiceDisplay(dice)

\* [String]::join
RECURSIVE JoinFrom(_, _, _)
JoinFrom(parts, i, sep) ==
    IF i > Len(parts) THEN << >>
    ELSE IF i = Len(parts) THEN parts[i]
    ELSE parts[i] \o sep \o JoinFrom(parts, i + 1, sep)
Join(parts, sep) == JoinFrom(parts, 1, sep)

\* DiceSet::fmt (to_string)
to_string(ds) ==
    LET counts == dice_counts(ds)
        keys == RevKeys(DOMAIN counts)
    IN Join([i \in 1..Len(keys) |-> GroupText(keys[i], counts[keys[i]])],
            <<" ", "+", " ">>)

-----------------------------------------------------------------------------
(* The inputs of the model::dice API *)

MaxSetLen == 3
MaxTextLen == 5
MaxRollLen == 3

\* every sequence over S of at most n elements
SeqsUpTo(S, n) == UNION {[1..k -> S] : k \in 0..n}

\* the DiceSets a caller builds with DiceSet::new, die by die
InputSets == {DiceSetOf(f) : f \in SeqsUpTo(Dice, MaxSetLen)}

\* the characters of the texts that are tried exhaustively: the letter of
\* the dice token, digits that spell valid and invalid tokens and counts,
\* and a character that belongs to no term
Alphabet == {"d", "0", "1", "2", "+"}

\* the notations of the crate's tests and documentation
ScenarioTexts ==
    { <<"d", "1", "0", "0">>,
      <<"2", "d", "1", "0">>,
      <<"3", "d", "4">>,
      <<"d", "1", "0", "0", " ", "+", " ", "2", "d", "2", "0">>,
      <<"2", "d", "7">>,
      <<"D", "1", "0", "0">>,
      <<"x", "x", "x", "d", "2", "0", "y", "y", "y">>,
      <<"0", "d", "6">>,
      <<"4", "2", "9", "4", "9", "6", "7", "2", "9", "5", "d", "3">>,
      <<"4", "2", "9", "4", "9", "6", "7", "2", "9", "6", "d", "3">> }

\* texts in which more than one thing is wrong: a count beyond u32::MAX on
\* an unknown token, and an unknown token before such a count
EdgeTexts ==
    { <<"4", "2", "9", "4", "9", "6", "7", "2", "9", "6", "d", "7">>,
      <<"d", "7", " ", "4", "2", "9", "4", "9", "6", "7", "2", "9", "6", "d", "3">> }

InputTexts == SeqsUpTo(Alphabet, MaxTextLen) \cup ScenarioTexts \cup EdgeTexts

\* the dice of the sets that are rolled exhaustively
SmallDice == {D3, D4, D6}

\* a DiceSet of 2^31 equal dice: its upper bound overflows whatever the die
TooMany(d) == DiceSetNew(<<[number |-> [hi |-> 2^15, lo |-> 0], dice |-> d]>>)

RollSets ==
    {DiceSetOf(f) : f \in SeqsUpTo(SmallDice, MaxRollLen)}
        \cup {DiceSetOf(<<d>>) : d \in Dice}
        \cup {TooMany(d) : d \in Dice}

-----------------------------------------------------------------------------
(* The callers of the service and the state they start from *)

\* the number of concurrent callers, of Uuids, and of calls the callers make
\* in all
MaxTasks == 2
MaxIds == 2
MaxCalls == 3

Tasks == 1..MaxTasks
\* the Uuids that occur: now_v7 draws from them, and a caller may pass any
RollIds == 1..MaxIds

\* one caller's call in flight: which call (kind), where it stands (pc), its
\* arguments and locals (dice_set, rolled_dice_set, id), its result, and
\* what the history knows about it: the sets the meter was handed in this
\* call (observed), whether the id had been returned by roll_dices when the
\* call started (known), and what the last completed save of the id was
\* when the store was read (expect)
Call(kind, pc, ds, rds, id, known) ==
    [kind |-> kind, pc |-> pc, dice_set |-> ds, rolled_dice_set |-> rds, id |-> id,
     observed |-> << >>, result |-> NoResult, known |-> known, expect |-> NoResult]

IdleTask == Call("none", "idle", NoSet, << >>, NoId, FALSE)

\* nothing has been given to the Dice API, no bound has been asked for
TokInit ==
    /\ token = NoText
    /\ tokenFrom = NoResult
    /\ die = NoResult
    /\ dieFrom = NoText
    /\ lower = NoResult
    /\ upper = NoResult

SvcInit ==
    /\ task = [t \in Tasks |-> IdleTask]
    /\ repo = << >>
    /\ rwWriter = {}
    /\ rwReaders = {}
    /\ table = << >>
    /\ minted = [id \in RollIds |-> 0]
    /\ returned = {}
    /\ lastSaved = << >>
    /\ lost = {}
    /\ calls = 0

-----------------------------------------------------------------------------
(* The notation harness: a caller that formats DiceSets and parses texts *)

NotationInit ==
    /\ \/ /\ set \in {Ok(ds) : ds \in InputSets}
          /\ text = NoText
       \/ /\ text \in InputTexts
          /\ set = NoResult
    /\ textFrom = NoSet
    /\ setFrom = NoText
    /\ rolledOut = NoResult
    /\ TokInit
    /\ SvcInit

\* set.to_string()
Format ==
    /\ set.ok
    /\ text' = to_string(set.val)
    /\ textFrom' = set.val
    /\ UNCHANGED <<set, setFrom, rolledOut, tokVars, bndVars, svcVars>>

\* DiceSet::from_str(text)
Parse ==
    /\ text # NoText
    /\ set' = from_str(text)
    /\ setFrom' = text
    /\ UNCHANGED <<text, textFrom, rolledOut, tokVars, bndVars, svcVars>>

NotationNext == Format \/ Parse

SpecNotation == NotationInit /\ [][NotationNext]_vars

-----------------------------------------------------------------------------
(* The token harness: a caller that formats Dice and parses tokens *)

MaxTokenLen == 4

\* the characters of the tokens that are tried exhaustively
TokenAlphabet == {"d", "D", "0", "1", "2"}

\* the tokens of the test can_understand_dice_notation, valid and invalid
TestTokens ==
    { <<"d", "3">>, <<"d", "4">>, <<"d", "6">>, <<"d", "8">>, <<"d", "1", "0">>,
      <<"d", "1", "2">>, <<"d", "2", "0">>, <<"d", "1", "0", "0">>,
      <<"d">>, <<"d", "2">>, <<"d", "1", "3">>, <<"d", "d">>, <<"1", "d", "2", "0">> }

InputTokens == SeqsUpTo(TokenAlphabet, MaxTokenLen) \cup TestTokens

TokenInit ==
    /\ \/ /\ die \in {Ok(d) : d \in Dice}
          /\ token = NoText
       \/ /\ token \in InputTokens
          /\ die = NoResult
    /\ tokenFrom = NoResult
    /\ dieFrom = NoText
    /\ lower = NoResult
    /\ upper = NoResult
    /\ text = NoText
    /\ textFrom = NoSet
    /\ set = NoResult
    /\ setFrom = NoText
    /\ rolledOut = NoResult
    /\ SvcInit

\* let notation: &str = die.into()
DiceIntoStr ==
    /\ die.ok
    /\ token' = DiceInto(die.val)
    /\ tokenFrom' = die
    /\ UNCHANGED <<die, dieFrom, text, textFrom, set, setFrom, rolledOut, bndVars, svcVars>>

\* die.to_string()
DiceToString ==
    /\ die.ok
    /\ token' = DiceDisplay(die.val)
    /\ tokenFrom' = die
    /\ UNCHANGED <<die, dieFrom, text, textFrom, set, setFrom, rolledOut, bndVars, svcVars>>

\* Dice::try_from(token)
DiceParse ==
    /\ token # NoText
    /\ die' = DiceTryFrom(token)
    /\ dieFrom' = token
    /\ UNCHANGED <<token, tokenFrom, text, textFrom, set, setFrom, rolledOut, bndVars, svcVars>>

TokenNext == DiceIntoStr \/ DiceToString \/ DiceParse

SpecToken == TokenInit /\ [][TokenNext]_vars

-----------------------------------------------------------------------------
(* The bounds harness: a caller that asks DiceSets for their bounds *)

\* counts around the places where a sum of side counts or a length leaves
\* the u32 range: 2^30 - 1, 2^30, (2^32 - 1) / 3, (2^32 - 1) / 3 + 1, 2^31,
\* 2^32 - 1, 2^32
HugeCounts ==
    { [hi |-> 2^14 - 1, lo |-> Base - 1], [hi |-> 2^14, lo |-> 0],
      [hi |-> 21845, lo |-> 21845], [hi |-> 21845, lo |-> 21846],
      [hi |-> 2^15, lo |-> 0], U32Max, [hi |-> Base, lo |-> 0] }

\* DiceSets of a huge run of one die, alone or followed by one more die
HugeSets ==
    {DiceSetNew(<<[number |-> n, dice |-> d]>>) : n \in HugeCounts, d \in Dice}
        \cup {DiceSetNew(<<[number |-> n, dice |-> d], [number |-> WOne, dice |-> e]>>) :
                  n \in HugeCounts, d \in Dice, e \in Dice}

BoundSets == InputSets \cup HugeSets

BoundsInit ==
    /\ set \in {Ok(ds) : ds \in BoundSets}
    /\ text = NoText
    /\ textFrom = NoSet
    /\ setFrom = NoText
    /\ rolledOut = NoResult
    /\ TokInit
    /\ SvcInit

\* set.lower_bound()
LowerBound ==
    /\ lower' = lower_bound(set.val)
    /\ UNCHANGED <<upper, text, textFrom, set, setFrom, rolledOut, tokVars, svcVars>>

\* set.upper_bound()
UpperBound ==
    /\ upper' = upper_bound(set.val)
    /\ UNCHANGED <<lower, text, textFrom, set, setFrom, rolledOut, tokVars, svcVars>>

BoundsNext == LowerBound \/ UpperBound

SpecBounds == BoundsInit /\ [][BoundsNext]_vars

-----------------------------------------------------------------------------
(* The rolling harness: a caller that rolls DiceSets *)

RollInit ==
    /\ set \in {Ok(ds) : ds \in RollSets}
    /\ text = NoText
    /\ textFrom = NoSet
    /\ setFrom = NoText
    /\ rolledOut = NoResult
    /\ TokInit
    /\ SvcInit

\* set.clone().roll()
Roll ==
    /\ rolledOut = NoResult
    /\ rolledOut' \in roll(set.val)
    /\ UNCHANGED <<text, textFrom, set, setFrom, tokVars, bndVars, svcVars>>

\* the caller drops the result and may roll the same set again
Reroll ==
    /\ rolledOut # NoResult
    /\ rolledOut' = NoResult
    /\ UNCHANGED <<text, textFrom, set, setFrom, tokVars, bndVars, svcVars>>

RollNext == Roll \/ Reroll

SpecRoll == RollInit /\ [][RollNext]_vars

-----------------------------------------------------------------------------
(* Claims about model::dice *)

\* how many dice of type d a DiceSet holds
RECURSIVE CountOfFrom(_, _, _)
CountOfFrom(ds, d, i) ==
    IF i > Len(ds) THEN WZero
    ELSE WAdd(IF ds[i].dice = d THEN ds[i].n ELSE WZero, CountOfFrom(ds, d, i + 1))
CountOf(ds, d) == CountOfFrom(ds, d, 1)

\* the multiset of the dice of a DiceSet
Multiset(ds) == [d \in Dice |-> CountOf(ds, d)]

\* every die type occurs at most u32::MAX times
FitsU32Counts(ds) == \A d \in Dice : WLe(CountOf(ds, d), U32Max)

\* C8: whenever both bounds of the rolled DiceSet succeed, every outcome of
\* roll is a RolledDiceSet whose total lies between the lower and the upper
\* bound (both included).
C8_TotalWithinBounds ==
    (rolledOut # NoResult /\ lower_bound(set.val).ok /\ upper_bound(set.val).ok)
        => /\ rolledOut.ok
           /\ WLe(lower_bound(set.val).val, total(rolledOut.val))
           /\ WLe(total(rolledOut.val), upper_bound(set.val).val)

\* a roll of several dice of different types in which every die shows its
\* highest face: the total is the upper bound
C8_Witness ==
    /\ rolledOut # NoResult
    /\ rolledOut.ok
    /\ Len(set.val) >= 2
    /\ total(rolledOut.val) = upper_bound(set.val).val
    /\ WLt(lower_bound(set.val).val, total(rolledOut.val))

TypesDescending(ms) ==
    LET types == {d \in Dice : ms[d] # WZero}
    IN [i \in 1..Cardinality(types) |->
            CHOOSE d \in types :
                Cardinality({e \in types : side_count(e) > side_count(d)}) = i - 1]

\* "<count><token>" when count > 1, "<token>" when count = 1
CanonicalGroup(d, count) ==
    IF WLt(WOne, count) THEN ToDigits(count) \o DiceInto(d) ELSE DiceInto(d)

RECURSIVE PlusJoined(_)
PlusJoined(groups) ==
    IF groups = << >> THEN << >>
    ELSE IF Len(groups) = 1 THEN groups[1]
    ELSE groups[1] \o <<" ", "+", " ">> \o PlusJoined(Tail(groups))

\* the rendering C10 describes, a function of the multiset alone
CanonicalText(ms) ==
    LET types == TypesDescending(ms)
    IN PlusJoined([i \in 1..Len(types) |-> CanonicalGroup(types[i], ms[types[i]])])

\* C10: the text format produces for a DiceSet is the canonical rendering of
\* its multiset of dice: one group per die type, groups by side count
\* descending, "<count><token>" for a count above 1 and "<token>" for a
\* count of 1, joined by " + "; so every permutation of the same dice
\* formats to the same text.
C10_CanonicalFormat ==
    textFrom # NoSet => text = CanonicalText(Multiset(textFrom))

\* [D20, D100, D20] formatted as "d100 + 2d20"
C10_Witness ==
    /\ textFrom = DiceSetOf(<<D20, D100, D20>>)
    /\ text = <<"d", "1", "0", "0", " ", "+", " ", "2", "d", "2", "0">>

-----------------------------------------------------------------------------
(* services/dice/mod.rs and service.rs: Service<R, M> *)

\* the model's error reported as a storage error
FromModelAsUnderlying(e) == ErrWith("Underlying", <<e.err>>)

\* impl From<DiceError> for Error (#[from]): Error::FromModel(e)
FromModel(e) == ErrWith("FromModel", <<e.err>>)

\* RollDicesResponse { id, rolled_dice_set }
RollDicesResponse(id, rds) == [id |-> id, rolled_dice_set |-> rds]

\* an id generator that may repeat itself
RollIdAny == RollIds

\* RollId::new: Uuid::now_v7() returns a value it has not returned before
RollIdNew == {id \in RollIds : minted[id] = 0}

\* the DiceSets of the requests
ServiceSets ==
    {DiceSetOf(<< >>), DiceSetOf(<<D3>>), TooMany(D100)}

\* the ids of the responses roll_dices has returned so far
ReturnedIds == {r.id : r \in returned}

\* a caller is free to make a call: it has none in flight
Free(t) == task[t].pc \in {"idle", "done"}

\* a caller calls roll_dices(&RollDicesRequest { dice_set }), which starts with
\*   let rolled_dice_set = req.dice_set.clone().roll()?;
RollDicesRoll(t, ds) ==
    /\ Free(t)
    /\ calls < MaxCalls
    /\ calls' = calls + 1
    /\ Cardinality(RollIdNew) > Cardinality({u \in Tasks : task[u].pc = "mint"})
    /\ \E out \in roll(ds) :
           task' = [task EXCEPT ![t] =
                       IF out.ok
                       THEN Call("roll_dices", "mint", ds, out.val, NoId, FALSE)
                       ELSE [Call("roll_dices", "done", ds, << >>, NoId, FALSE)
                                EXCEPT !.result = FromModel(out)]]
    /\ UNCHANGED <<diceVars, repo, rwWriter, rwReaders, table, minted, returned,
                   lastSaved, lost>>

\* let id = RollId::new();
RollDicesMint(t) ==
    /\ task[t].pc = "mint"
    /\ \E id \in RollIdNew :
           /\ task' = [task EXCEPT ![t] = [@ EXCEPT !.id = id, !.pc = "meter"]]
           /\ minted' = [minted EXCEPT ![id] = @ + 1]
    /\ UNCHANGED <<diceVars, repo, rwWriter, rwReaders, table, returned, lastSaved, lost, calls>>

\* a meter that is handed the roll twice
RegisterRollTwice(observed, rds) == observed \o <<rds, rds>>

\* DiceMeter::register_roll(&rolled_dice_set): the meter is handed the set
register_roll(observed, rds) == Append(observed, rds)

\* self.meter.register_roll(&rolled_dice_set).await;
RollDicesMeter(t) ==
    /\ task[t].pc = "meter"
    /\ task' = [task EXCEPT ![t] =
                   [@ EXCEPT !.observed = register_roll(@, task[t].rolled_dice_set),
                             !.pc = "save"]]
    /\ UNCHANGED <<diceVars, repo, rwWriter, rwReaders, table, minted, returned,
                   lastSaved, lost, calls>>

\* what roll_dices and save_roll return once the adapter's save_roll is Ok
SaveOk(t) ==
    IF task[t].kind = "roll_dices"
    THEN Ok(RollDicesResponse(task[t].id, task[t].rolled_dice_set))
    ELSE Ok(<< >>)

\* a caller calls get_dice_roll(&id); Service::get_dice_roll hands the id to
\* the adapter
GetDiceRollCall(t, id) ==
    /\ Free(t)
    /\ calls < MaxCalls
    /\ calls' = calls + 1
    /\ task' = [task EXCEPT ![t] =
                   Call("get_dice_roll", "get", NoSet, << >>, id, id \in ReturnedIds)]
    /\ UNCHANGED <<diceVars, repo, rwWriter, rwReaders, table, minted, returned,
                   lastSaved, lost>>

\* what the last completed save of id stored, as a get is to report it
LastSaved(id) ==
    IF id \in DOMAIN lastSaved THEN Ok(RollDicesResponse(id, lastSaved[id]))
    ELSE Err("NonExistingDiceRoll")

-----------------------------------------------------------------------------
(* services/dice/implem/in_memory.rs: InMemoryDiceHistorySaver *)

\* an insert that replaces the whole map
HashMapInsertOnly(m, k, v) == (k :> v)

\* an insert that keeps the value already stored under k (or_insert)
HashMapInsertIfAbsent(m, k, v) == m @@ (k :> v)

\* HashMap::entry(k).insert_entry(v): v is stored under k, whatever was there
HashMapInsert(m, k, v) == (k :> v) @@ m

\* a lookup that answers the empty set for a missing key (unwrap_or_default)
HashMapGetOrDefault(m, k) == IF k \in DOMAIN m THEN Ok(m[k]) ELSE Ok(<< >>)

\* HashMap::get(k).ok_or(Error::NonExistingDiceRoll)
HashMapGet(m, k) == IF k \in DOMAIN m THEN Ok(m[k]) ELSE Err("NonExistingDiceRoll")

\* a lock that hands out a read guard whatever guard is held
RwLockReadUnguarded == TRUE

\* tokio's RwLock: a write guard excludes every other guard, read guards
\* are shared
RwLockCanWrite == rwWriter = {} /\ rwReaders = {}
RwLockCanRead == rwWriter = {}

\* the RolledDiceSets a caller of the bare adapter saves
StoreSets == {<< >>, <<RolledDice(D3, 1)>>, <<RolledDice(D3, 2)>>}

\* a caller calls InMemoryDiceHistorySaver::save_roll(&id, &rolled_dice_set)
SaveRollCall(t, id, rds) ==
    /\ Free(t)
    /\ calls < MaxCalls
    /\ calls' = calls + 1
    /\ task' = [task EXCEPT ![t] = Call("save_roll", "save", NoSet, rds, id, FALSE)]
    /\ UNCHANGED <<diceVars, repo, rwWriter, rwReaders, table, minted, returned,
                   lastSaved, lost>>

\* save_roll: let mut hm = self.repo.write().await;
MemSaveLock(t) ==
    /\ task[t].pc = "save"
    /\ RwLockCanWrite
    /\ rwWriter' = {t}
    /\ task' = [task EXCEPT ![t].pc = "insert"]
    /\ UNCHANGED <<diceVars, repo, rwReaders, table, minted, returned, lastSaved, lost, calls>>

\* save_roll: hm.entry(id.0).insert_entry(rolled_dice_set.clone()); Ok(()),
\* which drops the write guard; roll_dices then returns
\* Ok(RollDicesResponse { id, rolled_dice_set })
MemSaveInsert(t) ==
    /\ task[t].pc = "insert"
    /\ repo' = HashMapInsert(repo, task[t].id, task[t].rolled_dice_set)
    /\ rwWriter' = {}
    /\ lastSaved' = (task[t].id :> task[t].rolled_dice_set) @@ lastSaved
    /\ task' = [task EXCEPT ![t] = [@ EXCEPT !.result = SaveOk(t), !.pc = "done"]]
    /\ returned' = IF task[t].kind = "roll_dices"
                   THEN returned \cup {SaveOk(t).val} ELSE returned
    /\ UNCHANGED <<diceVars, rwReaders, table, minted, lost, calls>>

\* get_dice_roll: let hm = self.repo.read().await;
MemGetLock(t) ==
    /\ task[t].pc = "get"
    /\ RwLockCanRead
    /\ rwReaders' = rwReaders \cup {t}
    /\ task' = [task EXCEPT ![t].pc = "read"]
    /\ UNCHANGED <<diceVars, repo, rwWriter, table, minted, returned, lastSaved, lost, calls>>

\* get_dice_roll: hm.get(&id.0).ok_or(NonExistingDiceRoll)?, the clone, and
\* the read guard dropped; Service::get_dice_roll maps the set into
\* RollDicesResponse { id: id.clone(), rolled_dice_set }
MemGetRead(t) ==
    /\ task[t].pc = "read"
    /\ LET found == HashMapGet(repo, task[t].id)
       IN task' = [task EXCEPT ![t] =
                      [@ EXCEPT !.result = IF found.ok
                                           THEN Ok(RollDicesResponse(task[t].id, found.val))
                                           ELSE found,
                                !.expect = LastSaved(task[t].id),
                                !.pc = "done"]]
    /\ rwReaders' = rwReaders \ {t}
    /\ UNCHANGED <<diceVars, repo, rwWriter, table, minted, returned, lastSaved, lost, calls>>

-----------------------------------------------------------------------------
(* services/dice/implem/postgres/mod.rs: PostgresRepo *)

\* Error::Underlying(anyhow!(msg)) and the errors .context(msg)? raises
Underlying(msg) == ErrWith("Underlying", <<msg>>)

\* i64::from(u32): every u32 is an i64
I64From(r) == r

\* u32::try_from(i64)
U32TryFrom(v) ==
    IF v >= 0 /\ WLe(W(v), U32Max) THEN Ok(v) ELSE Err("TryFromIntError")

\* struct RolledDiceDbEntry { dice: String, result: i64 }
RolledDiceDbEntry(dice, result) == [dice |-> dice, result |-> result]

\* impl TryFrom<RolledDiceDbEntry> for RolledDice
RolledDiceTryFrom(value) ==
    LET dice == DiceTryFrom(value.dice)
        result == U32TryFrom(value.result)
    IN IF ~dice.ok
       THEN Underlying("cannot decode the value of the Dice stored in the database")
       ELSE IF ~result.ok
       THEN Underlying("cannot decode the value of the result of the roll stored in the database")
       ELSE Ok(RolledDice(dice.val, result.val))

\* .map(RolledDice::try_from).collect::<Result<Vec<_>, _>>(): the first
\* error, else the converted entries in order
RECURSIVE CollectEntries(_, _, _)
CollectEntries(entries, i, acc) ==
    IF i > Len(entries) THEN Ok(acc)
    ELSE LET rd == RolledDiceTryFrom(entries[i])
         IN IF rd.ok THEN CollectEntries(entries, i + 1, Append(acc, rd.val)) ELSE rd

\* save_roll's three arrays, zipped by UNNEST into the rows to insert
PgRows(id, rds) ==
    [i \in 1..Len(rds) |->
        [roll_id |-> id, dice |-> DiceDisplay(rds[i].dice), result |-> I64From(rds[i].result)]]

\* the DiceSets of the requests made to the Postgres-backed service
PgSets == {DiceSetOf(<< >>), DiceSetOf(<<D3, D4>>)}

\* save_roll: the INSERT, run outside any transaction, either fails
\* (outcome -1, no row added) or adds some of the rows and reports their
\* number as rows_affected; save_roll returns Ok(()) only when that number
\* is the number of dice, and otherwise returns Error::Underlying, the rows
\* staying in the table; roll_dices returns what save_roll returned
PgSaveRoll(t) ==
    /\ task[t].pc = "save"
    /\ LET id == task[t].id
           rds == task[t].rolled_dice_set
           rows == PgRows(id, rds)
       IN \E outcome \in (-1)..Len(rows) :
              LET rows_affected == IF outcome = -1 THEN 0 ELSE outcome
                  res == IF outcome = -1
                         THEN Underlying("error inserting entries into the database")
                         ELSE IF rows_affected # Len(rows)
                         THEN Underlying("Postgres transaction error detected not all rolls have been persisted")
                         ELSE SaveOk(t)
              IN /\ table' = table \o SubSeq(rows, 1, rows_affected)
                 /\ task' = [task EXCEPT ![t] = [@ EXCEPT !.result = res, !.pc = "done"]]
                 /\ lastSaved' = IF res.ok THEN (id :> rds) @@ lastSaved ELSE lastSaved
                 /\ returned' = IF res.ok THEN returned \cup {res.val} ELSE returned
                 /\ lost' = IF res.ok THEN lost
                            ELSE lost \cup {RollDicesResponse(id, rds)}
    /\ UNCHANGED <<diceVars, repo, rwWriter, rwReaders, minted, calls>>

\* the rows of the table with this roll_id, in the table's order
PgSelect(id) == SelectSeq(table, LAMBDA row : row.roll_id = id)

\* get_dice_roll: the SELECT (it has no ORDER BY: the rows come in any
\* order) or its failure, the conversion of the entries, and
\* Ok(RolledDiceSet::new(..)); Service::get_dice_roll maps the set into
\* RollDicesResponse { id: id.clone(), rolled_dice_set }
PgGetDiceRoll(t) ==
    /\ task[t].pc = "get"
    /\ LET id == task[t].id
           found == PgSelect(id)
       IN \E fetched \in BOOLEAN, order \in Permutations(1..Len(found)) :
              LET entries == [i \in 1..Len(found) |->
                                 RolledDiceDbEntry(found[order[i]].dice,
                                                   found[order[i]].result)]
                  rolled_dices == CollectEntries(entries, 1, << >>)
                  res == IF ~fetched
                         THEN Underlying("error reading dice rolls from postgres database")
                         ELSE IF ~rolled_dices.ok THEN rolled_dices
                         ELSE Ok(RollDicesResponse(id, rolled_dices.val))
              IN task' = [task EXCEPT ![t] =
                             [@ EXCEPT !.result = res,
                                       !.expect = LastSaved(id),
                                       !.pc = "done"]]
    /\ UNCHANGED <<diceVars, repo, rwWriter, rwReaders, table, minted, returned,
                   lastSaved, lost, calls>>

-----------------------------------------------------------------------------
(* Service<InMemoryDiceHistorySaver, M> under concurrent callers *)

Init ==
    /\ text = NoText
    /\ textFrom = NoSet
    /\ set = NoResult
    /\ setFrom = NoText
    /\ rolledOut = NoResult
    /\ TokInit
    /\ SvcInit

Next ==
    \E t \in Tasks :
        \/ \E ds \in ServiceSets : RollDicesRoll(t, ds)
        \/ RollDicesMint(t)
        \/ RollDicesMeter(t)
        \/ MemSaveLock(t)
        \/ MemSaveInsert(t)
        \/ \E id \in RollIds : GetDiceRollCall(t, id)
        \/ MemGetLock(t)
        \/ MemGetRead(t)

Spec == Init /\ [][Next]_vars

-----------------------------------------------------------------------------
(* InMemoryDiceHistorySaver alone, under concurrent callers that pick the
   ids themselves *)

StoreNext ==
    \E t \in Tasks :
        \/ \E id \in RollIds, rds \in StoreSets : SaveRollCall(t, id, rds)
        \/ MemSaveLock(t)
        \/ MemSaveInsert(t)
        \/ \E id \in RollIds : GetDiceRollCall(t, id)
        \/ MemGetLock(t)
        \/ MemGetRead(t)

SpecStore == Init /\ [][StoreNext]_vars

-----------------------------------------------------------------------------
(* Service<PostgresRepo, M> under concurrent callers *)

PostgresNext ==
    \E t \in Tasks :
        \/ \E ds \in PgSets : RollDicesRoll(t, ds)
        \/ RollDicesMint(t)
        \/ RollDicesMeter(t)
        \/ PgSaveRoll(t)
        \/ \E id \in RollIds : GetDiceRollCall(t, id)
        \/ PgGetDiceRoll(t)

SpecPostgres == Init /\ [][PostgresNext]_vars

-----------------------------------------------------------------------------
(* Claims about the dice service *)

\* the callers whose call is a finished get_dice_roll, a roll_dices
Gets == {t \in Tasks : task[t].kind = "get_dice_roll" /\ task[t].pc = "done"}
Rolls == {t \in Tasks : task[t].kind = "roll_dices"}

C2_NeverSavedIsNonExisting ==
    \A t \in Gets :
        ~task[t].expect.ok => task[t].result = Err("NonExistingDiceRoll")

\* a get that failed with NonExistingDiceRoll while another id is stored
C2_Witness ==
    \E t \in Gets :
        /\ task[t].result = Err("NonExistingDiceRoll")
        /\ task[t].id \notin DOMAIN repo
        /\ repo # << >>

\* a roll_dices request on a DiceSet whose upper bound overflows acts in
\* this step
OverflowStep(t) ==
    /\ task'[t] # task[t]
    /\ task'[t].kind = "roll_dices"
    /\ ~upper_bound(task'[t].dice_set).ok

\* C3: every step of a roll_dices request whose DiceSet's upper bound
\* overflows ends the request with WayTooManyDices, with no RollId minted,
\* the meter handed nothing, and the store as it was.
C3_OverflowAborts ==
    [][\A t \in Tasks :
          OverflowStep(t) =>
              /\ task'[t].pc = "done"
              /\ task'[t].result.ok = FALSE
              /\ task'[t].result.err = "FromModel"
              /\ task'[t].result.arg = <<"WayTooManyDices">>
              /\ task'[t].id = NoId
              /\ task'[t].observed = << >>
              /\ minted' = minted
              /\ repo' = repo
              /\ rwWriter' = rwWriter]_vars

\* a request for 2^31 D100 has ended with WayTooManyDices while a roll is
\* stored
C3_Witness ==
    \E t \in Rolls :
        /\ task[t].dice_set = TooMany(D100)
        /\ task[t].pc = "done"
        /\ task[t].result.arg = <<"WayTooManyDices">>
        /\ repo # << >>

C5_MeterOnceBeforeSave ==
    \A t \in Rolls :
        /\ task[t].pc \in {"mint", "meter"} => task[t].observed = << >>
        /\ task[t].pc \in {"save", "insert"} =>
               task[t].observed = <<task[t].rolled_dice_set>>
        /\ task[t].pc = "done" =>
               IF task[t].result.ok
               THEN /\ task[t].observed = <<task[t].rolled_dice_set>>
                    /\ task[t].result.val.rolled_dice_set = task[t].rolled_dice_set
               ELSE task[t].observed = << >>

\* a request that rolled a D3 has returned, the meter handed that roll once
C5_Witness ==
    \E t \in Rolls :
        /\ task[t].pc = "done"
        /\ task[t].result.ok
        /\ Len(task[t].rolled_dice_set) = 1
        /\ task[t].observed = <<task[t].rolled_dice_set>>

\* C6: the in-memory store holds under every id exactly the set of the
\* most recent completed save_roll of that id (a later save overwrites, a
\* save leaves the other ids alone), and a get_dice_roll returns it.
C6_LastWriterWins ==
    /\ repo = lastSaved
    /\ \A t \in Gets : task[t].result = task[t].expect

\* an id saved twice with different sets, and a get that returned the later
C6_Witness ==
    \E t \in Gets, u \in Tasks :
        /\ u # t
        /\ task[u].kind = "save_roll"
        /\ task[u].pc = "done"
        /\ task[u].id = task[t].id
        /\ task[u].rolled_dice_set = <<RolledDice(D3, 1)>>
        /\ task[t].result = Ok(RollDicesResponse(task[t].id, <<RolledDice(D3, 2)>>))
        /\ calls = 3

\* C7: no RollId is handed out twice, so the requests in flight or returned
\* hold pairwise different ids, and once its save has completed every
\* returned id is stored with its own RolledDiceSet.
C7_DistinctIds ==
    /\ \A id \in RollIds : minted[id] <= 1
    /\ \A t, u \in Rolls :
           (t # u /\ task[t].id # NoId) => task[t].id # task[u].id
    /\ \A r \in returned : HashMapGet(repo, r.id) = Ok(r.rolled_dice_set)

\* two requests that rolled different results have both returned
C7_Witness ==
    \E t, u \in Rolls :
        /\ t # u
        /\ task[t].pc = "done" /\ task[u].pc = "done"
        /\ task[t].result.ok /\ task[u].result.ok
        /\ task[t].rolled_dice_set # task[u].rolled_dice_set
        /\ Len(task[t].rolled_dice_set) = 1 /\ Len(task[u].rolled_dice_set) = 1
        /\ Cardinality(returned) = 2

-----------------------------------------------------------------------------
(* Claims about parsing *)

\* the count a matched term states (1 when it states none) and its die
CountOfTerm(caps) == IF caps.hasNumber THEN ParseU32(caps.number).val ELSE WOne
DieOfTerm(caps) == DiceTryFrom(caps.dice).val

\* the dice C11 describes, die by die: for each term in turn, count copies
\* of its die
RECURSIVE Expansion(_, _)
Expansion(caps, i) ==
    IF i > Len(caps) THEN << >>
    ELSE [k \in 1..WInt(CountOfTerm(caps[i])) |-> DieOfTerm(caps[i])]
             \o Expansion(caps, i + 1)

\* the same as runs of equal dice, for counts too large to write out
RECURSIVE ExpansionRuns(_, _)
ExpansionRuns(caps, i) ==
    IF i > Len(caps) THEN << >>
    ELSE LET rest == ExpansionRuns(caps, i + 1)
             d == DieOfTerm(caps[i])
             n == CountOfTerm(caps[i])
         IN IF n = WZero THEN rest
            ELSE IF rest # << >> /\ rest[1].dice = d
            THEN <<[dice |-> d, n |-> WAdd(n, rest[1].n)]>> \o Tail(rest)
            ELSE <<[dice |-> d, n |-> n]>> \o rest

\* the text with everything outside its matched terms replaced by one
\* space between the terms
TermsOnly(s) ==
    LET caps == captures_iter(s)
    IN Join([i \in 1..Len(caps) |-> caps[i].number \o caps[i].dice], <<" ">>)

\* every count of the text is small enough for the dice to be written out
SmallCounts(s) ==
    \A i \in 1..Len(captures_iter(s)) :
        WLe(CountOfTerm(captures_iter(s)[i]), W(100))

\* C11: a successful parse yields, in the order of the matched terms,
\* count copies of each term's die (one copy when the term has no count);
\* the characters outside the matched terms contribute nothing: the text
\* reduced to its terms parses to the same DiceSet.
C11_ParseExpandsTerms ==
    (setFrom # NoText /\ set.ok) =>
        /\ set.val = ExpansionRuns(captures_iter(setFrom), 1)
        /\ SmallCounts(setFrom) => Iter(set.val) = Expansion(captures_iter(setFrom), 1)
        /\ from_str(TermsOnly(setFrom)) = set

\* "d100 + 2d20" parsed to [D100, D20, D20]
C11_Witness ==
    /\ setFrom = <<"d", "1", "0", "0", " ", "+", " ", "2", "d", "2", "0">>
    /\ set = Ok(DiceSetOf(<<D100, D20, D20>>))

\* the eight die tokens
DieTokens ==
    { <<"d", "3">>, <<"d", "4">>, <<"d", "6">>, <<"d", "8">>, <<"d", "1", "0">>,
      <<"d", "1", "2">>, <<"d", "2", "0">>, <<"d", "1", "0", "0">> }

\* a matched term whose count is no u32, whose token is no die token
BadCount(caps) == caps.hasNumber /\ ~ParseU32(caps.number).ok
BadToken(caps) == caps.dice \notin DieTokens

\* the cases of C12 for a text: (a) no term, (b) some bad count, (c) some
\* bad token
NoTerm(s) == captures_iter(s) = << >>
SomeBadCount(s) == \E i \in 1..Len(captures_iter(s)) : BadCount(captures_iter(s)[i])
SomeBadToken(s) == \E i \in 1..Len(captures_iter(s)) : BadToken(captures_iter(s)[i])

\* C12 as stated: parse fails exactly in the cases (a), (b), (c); in (a) and
\* (b) with DiceSetParseError, in (c) with DiceUnknown.
C12_ErrorCasesAsStated ==
    setFrom # NoText =>
        /\ ~set.ok <=> (NoTerm(setFrom) \/ SomeBadCount(setFrom) \/ SomeBadToken(setFrom))
        /\ (NoTerm(setFrom) \/ SomeBadCount(setFrom)) => set = Err("DiceSetParseError")
        /\ SomeBadToken(setFrom) => (~set.ok /\ set.err = "DiceUnknown")

\* the first term, left to right, with a bad count or a bad token
FirstBadTerm(s) ==
    LET caps == captures_iter(s)
        i == CHOOSE i \in 1..Len(caps) :
                 /\ BadCount(caps[i]) \/ BadToken(caps[i])
                 /\ \A j \in 1..(i - 1) : ~BadCount(caps[j]) /\ ~BadToken(caps[j])
    IN caps[i]

\* C12 amended: parse fails exactly in the cases (a), (b), (c); in (a) with
\* DiceSetParseError, and otherwise with the error of the first failing
\* term from the left: DiceSetParseError when its count is bad, else
\* DiceUnknown carrying its token.
C12_ErrorOfFirstBadTerm ==
    setFrom # NoText =>
        /\ ~set.ok <=> (NoTerm(setFrom) \/ SomeBadCount(setFrom) \/ SomeBadToken(setFrom))
        /\ NoTerm(setFrom) => set = Err("DiceSetParseError")
        /\ (SomeBadCount(setFrom) \/ SomeBadToken(setFrom)) =>
               set = IF BadCount(FirstBadTerm(setFrom)) THEN Err("DiceSetParseError")
                     ELSE ErrWith("DiceUnknown", FirstBadTerm(setFrom).dice)

\* "d7 4294967296d3", an unknown token before a bad count, failed with
\* DiceUnknown("d7")
C12_Witness ==
    /\ setFrom = <<"d", "7", " ", "4", "2", "9", "4", "9", "6", "7", "2", "9", "6", "d", "3">>
    /\ set = ErrWith("DiceUnknown", <<"d", "7">>)

\* C13 as stated: parse("2d7") fails with DiceSetParseError and
\* parse("D100") fails with DiceUnknown.
C13_ErrorsAsStated ==
    /\ setFrom = <<"2", "d", "7">> => set = Err("DiceSetParseError")
    /\ setFrom = <<"D", "1", "0", "0">> => (~set.ok /\ set.err = "DiceUnknown")

\* C13 amended: parse("2d7") fails with DiceUnknown carrying "d7" (the term
\* matches, its token is no die) and parse("D100") fails with
\* DiceSetParseError (no term matches: the token letter is lowercase only).
C13_ErrorsOfTheCode ==
    /\ setFrom = <<"2", "d", "7">> => set = ErrWith("DiceUnknown", <<"d", "7">>)
    /\ setFrom = <<"D", "1", "0", "0">> => set = Err("DiceSetParseError")

\* "D100" has been parsed, and the parse failed
C13_Witness ==
    /\ setFrom = <<"D", "1", "0", "0">>
    /\ ~set.ok
    /\ set # NoResult

-----------------------------------------------------------------------------
(* Claims about Dice *)

\* C14: parsing the text either formatter produced for a Dice gives that
\* Dice back; formatting the Dice parsed from one of the eight tokens gives
\* that token back; and a text parses exactly when it is one of the eight
\* tokens, any other failing with DiceUnknown carrying the text.
C14_DiceParseFormatInverse ==
    /\ (tokenFrom # NoResult /\ dieFrom = token) => die = tokenFrom
    /\ (die.ok /\ tokenFrom = die /\ dieFrom # NoText) => token = dieFrom
    /\ dieFrom # NoText =>
           IF dieFrom \in DieTokens THEN die.ok
           ELSE die = ErrWith("DiceUnknown", dieFrom)

\* "d100" was parsed to D100, which was formatted back to "d100"
C14_Witness ==
    /\ dieFrom = <<"d", "1", "0", "0">>
    /\ die = Ok(D100)
    /\ tokenFrom = die
    /\ token = dieFrom

-----------------------------------------------------------------------------
(* Claims about the Postgres adapter *)

\* C15: with the Postgres adapter, a get_dice_roll of an id that was never
\* minted, so under which no roll was ever saved, fails with
\* NonExistingDiceRoll (or with the error of a database that could not be
\* read) and returns no RolledDiceSet.
C15_PgAbsentIdFails ==
    \A t \in Gets :
        minted[task[t].id] = 0 =>
            \/ task[t].result = Err("NonExistingDiceRoll")
            \/ task[t].result = Underlying("error reading dice rolls from postgres database")

\* C16: with the Postgres adapter, a get_dice_roll that answers for an id
\* whose save_roll had returned Ok returns the saved RolledDiceSet, die by
\* die in the saved order, in whatever order the table hands out the rows.
C16_PgOrderPreserved ==
    \A t \in Gets :
        (task[t].expect.ok /\ task[t].result.ok) => task[t].result = task[t].expect

-----------------------------------------------------------------------------
(* Claims about the in-memory adapter's lock *)

\* the callers inside save_roll with the map locked, inside get_dice_roll
\* with the map locked
Saving == {t \in Tasks : task[t].pc = "insert"}
Reading == {t \in Tasks : task[t].pc = "read"}

\* C17: the callers that hold the map are exactly the guards of the lock;
\* at most one save_roll holds it, and while one does no get_dice_roll holds
\* it (several get_dice_roll may hold it together); so what a get_dice_roll
\* reads is the map as the last completed save_roll left it.
C17_RwLockExclusion ==
    /\ rwWriter = Saving
    /\ rwReaders = Reading
    /\ Cardinality(Saving) <= 1
    /\ Saving # {} => Reading = {}
    /\ \A t \in Reading : HashMapGet(repo, task[t].id).ok = LastSaved(task[t].id).ok
    /\ \A t \in Reading :
           HashMapGet(repo, task[t].id).ok =>
               HashMapGet(repo, task[t].id).val = lastSaved[task[t].id]

\* two get_dice_roll hold the map together, after a save_roll has stored a
\* roll
C17_Witness ==
    /\ Cardinality(Reading) = 2
    /\ repo # << >>

-----------------------------------------------------------------------------
(* Claims about rolling and the bounds *)

\* C18: roll of a DiceSet whose upper bound overflows fails with
\* WayTooManyDices and yields no rolled die; any other roll yields a
\* RolledDiceSet as long as the DiceSet whose i-th element carries the
\* i-th die and a result between 1 and that die's side count.
C18_RollChecksThenRollsEach ==
    rolledOut # NoResult =>
        IF ~upper_bound(set.val).ok THEN rolledOut = Err("WayTooManyDices")
        ELSE /\ rolledOut.ok
             /\ W(Len(rolledOut.val)) = VecLen(set.val)
             /\ \A i \in 1..Len(rolledOut.val) :
                    /\ rolledOut.val[i].dice = Iter(set.val)[i]
                    /\ 1 <= rolledOut.val[i].result
                    /\ rolledOut.val[i].result <= side_count(Iter(set.val)[i])

\* [D4, D3] rolled to a 4 on the D4 and a 1 on the D3
C18_Witness ==
    /\ set = Ok(DiceSetOf(<<D4, D3>>))
    /\ rolledOut = Ok(<<RolledDice(D4, 4), RolledDice(D3, 1)>>)

\* the sum of the side counts of all dice of a DiceSet, as a number of any
\* size
RECURSIVE ExactSum(_, _)
ExactSum(ds, i) ==
    IF i > Len(ds) THEN WZero
    ELSE WAdd(WMul(ds[i].n, side_count(ds[i].dice)), ExactSum(ds, i + 1))

\* C19: upper_bound returns the exact sum of the side counts when the sum
\* is at most 2^32 - 1, and fails with WayTooManyDices when it is more;
\* never a wrapped or saturated value.
C19_UpperBoundExactOrFails ==
    upper # NoResult =>
        upper = IF WLe(ExactSum(set.val, 1), U32Max) THEN Ok(ExactSum(set.val, 1))
                ELSE Err("WayTooManyDices")

\* (2^32 - 1) / 3 dice D3: the upper bound is 2^32 - 1 exactly
C19_Witness ==
    /\ set = Ok(DiceSetNew(<<[number |-> [hi |-> 21845, lo |-> 21845], dice |-> D3]>>))
    /\ upper = Ok(U32Max)

\* the sum of the results of a RolledDiceSet, and of the side counts of its
\* dice, as numbers of any size
RECURSIVE ExactTotal(_, _)
ExactTotal(rs, i) ==
    IF i > Len(rs) THEN WZero ELSE WAdd(W(rs[i].result), ExactTotal(rs, i + 1))
RECURSIVE SidesSum(_, _)
SidesSum(rs, i) ==
    IF i > Len(rs) THEN WZero ELSE WAdd(W(side_count(rs[i].dice)), SidesSum(rs, i + 1))

\* total() of a RolledDiceSet is the sum of its results, which is at most
\* the sum of the side counts of its dice, which fits a u32
TotalIsSum(rs) ==
    /\ total(rs) = ExactTotal(rs, 1)
    /\ WLe(ExactTotal(rs, 1), SidesSum(rs, 1))
    /\ WLe(SidesSum(rs, 1), U32Max)

\* the requests that hold a RolledDiceSet returned by DiceSet::roll
Rolled == {t \in Rolls : task[t].pc # "done" \/ task[t].result.ok}

-----------------------------------------------------------------------------
(* Claims about the notation scanner *)

\* s[a..b] holds only characters of [0-9] (true of an empty range)
AllDigits(s, a, b) == \A x \in a..b : IsDigit(s[x])

\* every way the regex (?<number>[0-9]+)?(?<dice>d[0-9]+) matches at
\* position i: the number group ends before j (it did not take part when
\* j = i), "d" is at j, and the dice group ends before k
RegexMatches(s, i) ==
    UNION { { [found |-> TRUE, hasNumber |-> j > i, number |-> SubSeq(s, i, j - 1),
               dice |-> SubSeq(s, j, k - 1), end |-> k] :
                  k \in {y \in (j + 2)..(Len(s) + 1) : AllDigits(s, j + 1, y - 1)} } :
            j \in {x \in i..Len(s) : AllDigits(s, i, x - 1) /\ s[x] = "d"} }

\* the match the regex crate reports at i (leftmost-first): the greedy
\* number group keeps as many digits as a match allows and takes part if
\* it can, then the greedy dice group keeps as many digits as it can
RegexMatchAt(s, i) ==
    CHOOSE m \in RegexMatches(s, i) :
        \A o \in RegexMatches(s, i) :
            \/ Len(m.number) > Len(o.number)
            \/ Len(m.number) = Len(o.number) /\ m.end >= o.end

\* Regex::captures_iter by the semantics of the regex crate: the match at
\* the leftmost position that has one, then the matches from its end on
RECURSIVE RegexCapturesFrom(_, _)
RegexCapturesFrom(s, pos) ==
    IF pos > Len(s) THEN << >>
    ELSE IF RegexMatches(s, pos) = {} THEN RegexCapturesFrom(s, pos + 1)
    ELSE <<RegexMatchAt(s, pos)>> \o RegexCapturesFrom(s, RegexMatchAt(s, pos).end)

\* the rest of from_str applied to a list of matches
FromCaptures(caps) ==
    LET dices == CollectTerms(caps, 1, << >>)
    IN IF ~dices.ok THEN dices
       ELSE IF dices.val = << >> THEN Err("DiceSetParseError")
       ELSE Ok(DiceSetNew(dices.val))

\* one pass over the text that never goes back: at pos, read the digits,
\* then "d", then the digits of the token; where that fails, go on after
\* the digits that were read (or after one character if none was)
RECURSIVE ScanFrom(_, _)
ScanFrom(s, pos) ==
    IF pos > Len(s) THEN << >>
    ELSE LET j == DigitsEnd(s, pos)
             k == DigitsEnd(s, j + 1)
         IN IF j <= Len(s) /\ s[j] = "d" /\ k > j + 1
            THEN <<[found |-> TRUE, hasNumber |-> j > pos,
                    number |-> SubSeq(s, pos, j - 1),
                    dice |-> SubSeq(s, j, k - 1), end |-> k]>> \o ScanFrom(s, k)
            ELSE ScanFrom(s, IF j > pos THEN j ELSE pos + 1)

\* the eight die tokens, and the one of them the text holds at j: the
\* longest, or none
DieTokenTexts == {DiceInto(d) : d \in Dice}
TokensAt(s, j) ==
    {t \in DieTokenTexts : j + Len(t) - 1 <= Len(s) /\ SubSeq(s, j, j + Len(t) - 1) = t}
TokenAt(s, j) ==
    CHOOSE t \in TokensAt(s, j) : \A o \in TokensAt(s, j) : Len(t) >= Len(o)

\* the same pass with a token that is one of the eight die tokens
RECURSIVE ScanFixedFrom(_, _)
ScanFixedFrom(s, pos) ==
    IF pos > Len(s) THEN << >>
    ELSE LET j == DigitsEnd(s, pos)
         IN IF TokensAt(s, j) # {}
            THEN <<[found |-> TRUE, hasNumber |-> j > pos,
                    number |-> SubSeq(s, pos, j - 1),
                    dice |-> TokenAt(s, j), end |-> j + Len(TokenAt(s, j))]>>
                     \o ScanFixedFrom(s, j + Len(TokenAt(s, j)))
            ELSE ScanFixedFrom(s, IF j > pos THEN j ELSE pos + 1)

\* C21 as stated: on every text, from_str returns what a left-to-right
\* scan for optional digits followed by one of the eight die tokens returns
\* (the same DiceSet or the same error).
C21_ScanOfFixedTokens ==
    setFrom # NoText => set = FromCaptures(ScanFixedFrom(setFrom, 1))

\* C21 as the code has it: on every text, the matches of the regex
\* (leftmost-first, non-overlapping) are the matches of one left-to-right
\* pass without backtracking for optional digits, "d" and the longest
\* non-empty run of digits, and from_str returns what the rest of from_str
\* makes of them: the same DiceSet or the same error.  Whether the token is
\* one of the eight die tokens is decided after the match, not by it.
C21_ScanOfDigitTokens ==
    setFrom # NoText =>
        /\ captures_iter(setFrom) = RegexCapturesFrom(setFrom, 1)
        /\ ScanFrom(setFrom, 1) = RegexCapturesFrom(setFrom, 1)
        /\ set = FromCaptures(ScanFrom(setFrom, 1))

\* "1+d10": the digit before "+" starts no term, and the text parsed to [D10]
C21_Witness ==
    /\ setFrom = <<"1", "+", "d", "1", "0">>
    /\ ScanFrom(setFrom, 1) # << >>
    /\ set = Ok(DiceSetOf(<<D10>>))

\* C22: whenever upper_bound succeeds, lower_bound succeeds too, and three
\* times the lower bound (each die has at least 3 sides) is at most the
\* upper bound; so a DiceSet that passes the check of roll, which asks for
\* the upper bound only, has both of its bounds.
C22_UpperOkImpliesLowerOk ==
    (upper # NoResult /\ upper.ok) =>
        /\ \A i \in 1..Len(set.val) : side_count(set.val[i].dice) >= 3
        /\ lower_bound(set.val).ok
        /\ lower # NoResult => lower.ok
        /\ WLe(WMul(lower_bound(set.val).val, 3), upper.val)

\* (2^32 - 1) / 3 dice D3, the most dice a DiceSet with an upper bound can
\* hold: both bounds were asked for and both came back
C22_Witness ==
    /\ set = Ok(DiceSetNew(<<[number |-> [hi |-> 21845, lo |-> 21845], dice |-> D3]>>))
    /\ upper = Ok(U32Max)
    /\ lower = Ok([hi |-> 21845, lo |-> 21845])

-----------------------------------------------------------------------------
(* Claims about terms that count no dice *)

\* the text has a matched term, and every matched term has one of the
\* eight die tokens and a count that reads as 0
AllTermsCountZero(s) ==
    /\ captures_iter(s) # << >>
    /\ \A i \in 1..Len(captures_iter(s)) :
           /\ TermOf(captures_iter(s)[i]).ok
           /\ TermOf(captures_iter(s)[i]).val.number = WZero

\* C23: a term with count 0 is a matched term that adds no dice.  A text
\* whose matched terms all have count 0 parses to Ok of the empty DiceSet,
\* not to DiceSetParseError, and these are the only texts that parse to the
\* empty DiceSet; so a successful parse does not mean a non-empty DiceSet.
C23_ZeroCountParsesToEmpty ==
    setFrom # NoText =>
        /\ AllTermsCountZero(setFrom) <=> set = Ok(DiceSetOf(<< >>))
        /\ set.ok => set.val = ExpansionRuns(captures_iter(setFrom), 1)

\* "0d6" parsed to the empty DiceSet
C23_Witness ==
    /\ setFrom = <<"0", "d", "6">>
    /\ AllTermsCountZero(setFrom)
    /\ set.ok
    /\ VecLen(set.val) = WZero

=============================================================================
